---- MODULE Spec2Model ----
(***************************************************************************)
(* License-key verification service (src/server.js, with the edge-function *)
(* twin in src/database_schema.sql:230-460).                               *)
(*                                                                         *)
(* The Record Store is the pair of tables api_keys / subscriptions (plus   *)
(* the read-only product row).  Every request handler is an async          *)
(* function: it is cut at its awaited store calls.  One action of the      *)
(* model is "one awaited store call is executed by the store, and the      *)
(* handler runs on synchronously up to the next awaited call or to its     *)
(* response".  Requests of different slots interleave freely at those      *)
(* points (Spec); SpecSeq runs one request at a time.                      *)
(*                                                                         *)
(* Time is counted in ticks, Day ticks to the day.                         *)
(***************************************************************************)
EXTENDS Integers, Sequences, FiniteSets, TLC

\* ---------------------------------------------------------------- bounds
MaxReqs == 2            \* requests that can be running at the same time
MaxOps == 3             \* requests received in a run
MaxTime == 3            \* the clock runs 0..MaxTime

\* ------------------------------------------------------------- constants
Day == 2                \* ticks per day (1000*60*60*24 ms in the source)
TrialDays == 1          \* expiresAt.setDate(getDate() + 1)

Reqs == 1..MaxReqs
Devices == {"D1", "D2"}
Pairs == {"p1"}                     \* (user, product) pairs
KeyValue(p) == "sk_" \o p           \* generate_api_key(), one per row
Tokens == {KeyValue(p) : p \in Pairs} \cup {"sk_unknown"}
AdminStatus == {"free", "premium"}
AdminDays == {0, 1}                 \* 0: "days" absent from the body

NoDevice == "null"      \* api_keys.device_id IS NULL
Null == -1              \* subscriptions.expires_at IS NULL
Undefined == 0          \* JS undefined used as a row id; row ids are >= 1

VARIABLES
    api_keys,           \* set of rows [id, pair, key_value, device_id]
    subscriptions,      \* set of rows [id, pair, status, expires_at, trial_used]
    products,           \* pair -> [is_active, trial_enabled]
    clock,              \* new Date()
    req                 \* slot -> the request running in it

vars == <<api_keys, subscriptions, products, clock, req>>

\* ------------------------------------------------------------ the store

\* .update(patch).eq('id', id): rows whose id matches take the patch.
UpdateById(table, id, patch) ==
    { IF row.id = id THEN patch @@ row ELSE row : row \in table }

\* .update(patch).eq('key_value', v)
UpdateByKeyValue(table, v, patch) ==
    { IF row.key_value = v THEN patch @@ row ELSE row : row \in table }

\* .update(patch).eq('user_id', u).eq('product_id', p)
UpdateByPair(table, p, patch) ==
    { IF row.pair = p THEN patch @@ row ELSE row : row \in table }

NextId(table) == Cardinality(table) + 1

\* AFTER INSERT trigger on subscriptions:
\* INSERT INTO api_keys ... ON CONFLICT (user_id, product_id) DO NOTHING
create_api_key_for_subscription(keys, p) ==
    IF \E k \in keys : k.pair = p
    THEN keys
    ELSE keys \cup {[id |-> NextId(keys), pair |-> p,
                     key_value |-> KeyValue(p), device_id |-> NoDevice]}

\* ensure_subscription as a plain INSERT, without ON CONFLICT and without
\* the unique (user_id, product_id) constraint.
ensure_subscription_PlainInsert(subs, p) ==
    subs \cup {[id |-> NextId(subs), pair |-> p, status |-> "free",
                expires_at |-> Null, trial_used |-> FALSE]}

\* ensure_subscription as an upsert: an existing row goes back to the
\* column defaults.
ensure_subscription_Upsert(subs, p) ==
    IF \E s \in subs : s.pair = p
    THEN UpdateByPair(subs, p, [status |-> "free", expires_at |-> Null,
                               trial_used |-> FALSE])
    ELSE subs \cup {[id |-> NextId(subs), pair |-> p, status |-> "free",
                     expires_at |-> Null, trial_used |-> FALSE]}

\* INSERT INTO subscriptions (user_id, product_id, status)
\* VALUES (.., .., 'free') ON CONFLICT (user_id, product_id) DO NOTHING
ensure_subscription(subs, p) ==
    IF \E s \in subs : s.pair = p
    THEN subs
    ELSE subs \cup {[id |-> NextId(subs), pair |-> p, status |-> "free",
                     expires_at |-> Null, trial_used |-> FALSE]}

\* ------------------------------------------------------------- requests

\* A request holds its handler's locals while it runs (view: keyData of
\* /verify; expiresAt, now, updateData: the locals of those names; snap: the
\* subscription rows of the pair as of the handler's ensure_subscription
\* call) and, when done, what it was asked, the store calls it issued
\* (writes) and its response (resp).  n numbers the requests in the order
\* they were received; conc holds the numbers of the requests that were
\* running when this one was received; released tells that a device
\* release was executed by the store while this one was running; failed
\* tells that one of its store calls failed.

NoView == [found |-> FALSE]
NoResp == [pending |-> TRUE]

Idle == [n |-> 0, conc |-> {}, released |-> FALSE, failed |-> FALSE,
         kind |-> "none", pc |-> "idle", token |-> "", device |-> "",
         pair |-> "", view |-> NoView, expiresAt |-> Null, now |-> 0,
         updateData |-> <<>>, snap |-> {}, writes |-> <<>>,
         resp |-> NoResp]

InFlight(r) == req[r].pc \notin {"idle", "done"}
Done(r) == req[r].pc = "done"

\* The number of requests received so far.
Ops == CHOOSE m \in 0..MaxOps :
          /\ \A q \in Reqs : req[q].n <= m
          /\ m = 0 \/ \E q \in Reqs : req[q].n = m

\* A request is received into the lowest slot never used or, when every
\* slot has been used, into the slot of the request that finished the
\* longest ago: the slots keep the latest requests.
CanStart(r) ==
    /\ Ops < MaxOps
    /\ IF \E q \in Reqs : req[q].pc = "idle"
       THEN /\ req[r].pc = "idle"
            /\ \A q \in Reqs : q < r => req[q].pc # "idle"
       ELSE /\ req[r].pc = "done"
            /\ \A q \in Reqs : req[q].pc = "done" => req[r].n <= req[q].n

\* The request received now.
Fresh == [Idle EXCEPT !.n = Ops + 1,
                      !.conc = {req[q].n : q \in {q \in Reqs : InFlight(q)}}]

\* A device release changed a row: every running request has seen one.
NoteRelease(rs, r) ==
    [q \in Reqs |-> IF q # r /\ rs[q].pc \notin {"idle", "done"}
                    THEN [rs[q] EXCEPT !.released = TRUE] ELSE rs[q]]

\* KeyLookup without the .eq('key_value', api_key) filter.
KeyLookup_NoFilter(token) ==
    LET hits == { k \in api_keys : \E s \in subscriptions : s.pair = k.pair }
    IN IF Cardinality(hits) # 1 THEN [found |-> FALSE]
       ELSE LET k == CHOOSE k \in hits : TRUE
                s == CHOOSE s \in subscriptions : s.pair = k.pair
            IN [found |-> TRUE,
                id |-> k.id, pair |-> k.pair, device_id |-> k.device_id,
                product |-> [name |-> k.pair,
                             is_active |-> products[k.pair].is_active,
                             trial_enabled |-> products[k.pair].trial_enabled],
                subscription |-> [id |-> Undefined,
                                  status |-> s.status,
                                  expires_at |-> s.expires_at,
                                  trial_used |-> s.trial_used]]

\* The select of /verify: api_keys row by key_value (.single()) with
\*   products!inner(name, description, is_active, trial_enabled, duration_days)
\*   subscriptions!inner(status, expires_at, trial_used)
\* The embedded subscription carries exactly the selected columns: its id is
\* not among them, so subscription.id reads as undefined.
KeyLookup(token) ==
    LET hits == { k \in api_keys : k.key_value = token /\
                    \E s \in subscriptions : s.pair = k.pair }
    IN IF Cardinality(hits) # 1 THEN NoView
       ELSE LET k == CHOOSE k \in hits : TRUE
                s == CHOOSE s \in subscriptions : s.pair = k.pair
            IN [found |-> TRUE,
                id |-> k.id, pair |-> k.pair, device_id |-> k.device_id,
                product |-> [name |-> k.pair,
                             is_active |-> products[k.pair].is_active,
                             trial_enabled |-> products[k.pair].trial_enabled],
                subscription |-> [id |-> Undefined,
                                  status |-> s.status,
                                  expires_at |-> s.expires_at,
                                  trial_used |-> s.trial_used]]

\* ------------------------------------------------------ /verify responses
\* (the user field, full_name || email, is the same in every valid answer
\* of a key and is left out)

InvalidKey == [valid |-> FALSE, error |-> "Invalid API key"]

ProductDisabled(product) ==
    [valid |-> FALSE, product |-> product.name, active |-> FALSE,
     message |-> "This product is no longer available."]

DeviceConflict ==
    [valid |-> FALSE, error |-> "API key is bound to a different device",
     message |-> "Use /release-device to unbind this key first."]

TrialActivated(view, expiresAt, device) ==
    [valid |-> TRUE, product |-> view.product.name, status |-> "trial",
     days_left |-> 1, expires_at |-> expiresAt, device_id |-> device,
     message |-> "Trial activated! You have 1 day of premium access."]

\* Math.ceil(a / b) for b > 0
Ceil(a, b) == -((-a) \div b)

Max(a, b) == IF a >= b THEN a ELSE b

\* (expiresAt - now): a null expiresAt converts to the number 0
Millis(expiresAt) == IF expiresAt = Null THEN 0 ELSE expiresAt

\* SteadyResponse with days_left and expires_at added whenever the handler
\* holds an expiry date, whatever the status it answers.
SteadyResponse_TimedByDate(view, status, expires_at, expiresAt, now, device) ==
    LET base == [valid |-> TRUE, product |-> view.product.name,
                 status |-> status, device_id |-> device]
        timed == IF expiresAt # Null
                 THEN [days_left |-> Max(0, Ceil(Millis(expiresAt) - now, Day)),
                       expires_at |-> expires_at]
                 ELSE <<>>
        note == IF status = "free" /\ ~view.product.trial_enabled
                THEN [message |-> "Trial not available for this product."]
                ELSE <<>>
    IN base @@ timed @@ note

\* SteadyResponse with Math.floor in place of Math.ceil.
SteadyResponse_Floor(view, status, expires_at, expiresAt, now, device) ==
    LET base == [valid |-> TRUE, product |-> view.product.name,
                 status |-> status, device_id |-> device]
        timed == IF status = "premium" \/ status = "trial"
                 THEN [days_left |-> Max(0, (Millis(expiresAt) - now) \div Day),
                       expires_at |-> expires_at]
                 ELSE <<>>
        note == IF status = "free" /\ ~view.product.trial_enabled
                THEN [message |-> "Trial not available for this product."]
                ELSE <<>>
    IN base @@ timed @@ note

\* lines 150-169: status and expires_at are the handler's local
\* subscription fields, expiresAt and now its local dates.
SteadyResponse(view, status, expires_at, expiresAt, now, device) ==
    LET base == [valid |-> TRUE, product |-> view.product.name,
                 status |-> status, device_id |-> device]
        timed == IF status = "premium" \/ status = "trial"
                 THEN [days_left |-> Max(0, Ceil(Millis(expiresAt) - now, Day)),
                       expires_at |-> expires_at]
                 ELSE <<>>
        note == IF status = "free" /\ ~view.product.trial_enabled
                THEN [message |-> "Trial not available for this product."]
                ELSE <<>>
    IN base @@ timed @@ note

\* ------------------------------------------------------- /verify handler

TrialEligible(view) ==
    /\ view.subscription.status = "free"
    /\ view.product.trial_enabled
    /\ ~view.subscription.trial_used

Expired_NotLater(sub, now) ==
    /\ sub.status = "trial" \/ sub.status = "premium"
    /\ sub.expires_at # Null
    /\ sub.expires_at <= now

Expired(sub, now) ==
    /\ sub.status = "trial" \/ sub.status = "premium"
    /\ sub.expires_at # Null
    /\ sub.expires_at < now

\* lines 107-169 up to the next awaited call: rq has passed the device
\* check at time t.
Lifecycle(rq, t) ==
    IF TrialEligible(rq.view)
    THEN [rq EXCEPT !.pc = "activate", !.expiresAt = t + TrialDays * Day]
    ELSE IF Expired(rq.view.subscription, t)
    THEN [rq EXCEPT !.pc = "revert", !.now = t,
                    !.expiresAt = rq.view.subscription.expires_at]
    ELSE [rq EXCEPT !.pc = "done",
                    !.resp = SteadyResponse(rq.view,
                                 rq.view.subscription.status,
                                 rq.view.subscription.expires_at,
                                 rq.view.subscription.expires_at, t, rq.device)]

\* AfterLookup with the device check ahead of the kill switch.
AfterLookup_DeviceFirst(rq, t) ==
    IF ~rq.view.found
    THEN [rq EXCEPT !.pc = "done", !.resp = InvalidKey]
    ELSE IF rq.view.device_id \notin {NoDevice, rq.device}
    THEN [rq EXCEPT !.pc = "done", !.resp = DeviceConflict]
    ELSE IF ~rq.view.product.is_active
    THEN [rq EXCEPT !.pc = "done", !.resp = ProductDisabled(rq.view.product)]
    ELSE IF rq.view.device_id = NoDevice
    THEN [rq EXCEPT !.pc = "bind"]
    ELSE Lifecycle(rq, t)

\* lines 72-105 after the select returned view, at time t.
AfterLookup(rq, t) ==
    IF ~rq.view.found
    THEN [rq EXCEPT !.pc = "done", !.resp = InvalidKey]
    ELSE IF ~rq.view.product.is_active
    THEN [rq EXCEPT !.pc = "done", !.resp = ProductDisabled(rq.view.product)]
    ELSE IF rq.view.device_id = NoDevice
    THEN [rq EXCEPT !.pc = "bind"]
    ELSE IF rq.view.device_id # rq.device
    THEN [rq EXCEPT !.pc = "done", !.resp = DeviceConflict]
    ELSE Lifecycle(rq, t)

\* Verify with the first-use bind issued right after the select, ahead of
\* the kill switch.
Verify_BindBeforeGate(r, token, device) ==
    /\ CanStart(r)
    /\ LET view == KeyLookup(token)
           first == view.found /\ view.device_id = NoDevice
           rq == [Fresh EXCEPT !.kind = "verify", !.token = token,
                               !.device = device, !.view = view,
                               !.pair = IF view.found THEN view.pair ELSE "",
                               !.writes = IF first
                                          THEN <<[op |-> "bind",
                                                  table |-> "api_keys",
                                                  id |-> view.id]>>
                                          ELSE <<>>]
       IN /\ api_keys' = IF first
                         THEN UpdateById(api_keys, view.id,
                                         [device_id |-> device])
                         ELSE api_keys
          /\ req' = [req EXCEPT ![r] = AfterLookup(rq, clock)]
    /\ UNCHANGED <<subscriptions, products, clock>>

\* Verify with the trial activation issued before the device check: a
\* request that is refused for its device has activated the trial.
Verify_LifecycleOnConflict(r, token, device) ==
    /\ CanStart(r)
    /\ LET view == KeyLookup(token)
           rq == [Fresh EXCEPT !.kind = "verify", !.token = token,
                               !.device = device, !.view = view,
                               !.pair = IF view.found THEN view.pair ELSE ""]
           out == AfterLookup(rq, clock)
           early == /\ out.pc = "done" /\ out.resp = DeviceConflict
                    /\ TrialEligible(view)
       IN /\ subscriptions' =
                IF early
                THEN UpdateById(subscriptions, view.subscription.id,
                                [status |-> "trial",
                                 expires_at |-> clock + TrialDays * Day,
                                 trial_used |-> TRUE])
                ELSE subscriptions
          /\ req' = [req EXCEPT ![r] =
                       IF early
                       THEN [out EXCEPT !.writes =
                               <<[op |-> "activate", table |-> "subscriptions",
                                  id |-> view.subscription.id]>>]
                       ELSE out]
    /\ UNCHANGED <<api_keys, products, clock>>

\* POST /verify {api_key: token, device_id: device}: the select of lines
\* 61-70 and the handler up to its next awaited call.
Verify(r, token, device) ==
    /\ CanStart(r)
    /\ LET view == KeyLookup(token)
           rq == [Fresh EXCEPT !.kind = "verify", !.token = token,
                              !.device = device, !.view = view,
                              !.pair = IF view.found THEN view.pair ELSE ""]
       IN req' = [req EXCEPT ![r] = AfterLookup(rq, clock)]
    /\ UNCHANGED <<api_keys, subscriptions, products, clock>>

\* VerifyBind with the update filtered on the id of the embedded
\* subscription instead of the id of the key.
VerifyBind_WrongId(r) ==
    /\ req[r].pc = "bind"
    /\ api_keys' = UpdateById(api_keys, req[r].view.subscription.id,
                              [device_id |-> req[r].device])
    /\ req' = [req EXCEPT ![r] =
                 Lifecycle([req[r] EXCEPT !.writes =
                              Append(@, [op |-> "bind", table |-> "api_keys",
                                         id |-> req[r].view.subscription.id])],
                           clock)]
    /\ UNCHANGED <<subscriptions, products, clock>>

\* VerifyBind holding its update back while another request is running.
VerifyBind_WaitsForOthers(r) ==
    /\ req[r].pc = "bind"
    /\ \A q \in Reqs \ {r} : ~InFlight(q)
    /\ api_keys' = UpdateById(api_keys, req[r].view.id,
                              [device_id |-> req[r].device])
    /\ req' = [req EXCEPT ![r] =
                 Lifecycle([req[r] EXCEPT !.writes =
                              Append(@, [op |-> "bind", table |-> "api_keys",
                                         id |-> req[r].view.id])],
                           clock)]
    /\ UNCHANGED <<subscriptions, products, clock>>

\* VerifyBind as a toggle: a key that got a device since the select is
\* set back to null.
VerifyBind_ClearsIfTaken(r) ==
    /\ req[r].pc = "bind"
    /\ api_keys' =
          { IF k.id # req[r].view.id THEN k
            ELSE [k EXCEPT !.device_id = IF k.device_id = NoDevice
                                         THEN req[r].device ELSE NoDevice]
            : k \in api_keys }
    /\ req' = [req EXCEPT ![r] =
                 Lifecycle([req[r] EXCEPT !.writes =
                              Append(@, [op |-> "bind", table |-> "api_keys",
                                         id |-> req[r].view.id])],
                           clock)]
    /\ UNCHANGED <<subscriptions, products, clock>>

\* lines 94-97: update({device_id}).eq('id', keyData.id); its result is
\* not looked at.
VerifyBind(r) ==
    /\ req[r].pc = "bind"
    /\ api_keys' = UpdateById(api_keys, req[r].view.id,
                              [device_id |-> req[r].device])
    /\ req' = [req EXCEPT ![r] =
                 Lifecycle([req[r] EXCEPT !.writes =
                              Append(@, [op |-> "bind", table |-> "api_keys",
                                         id |-> req[r].view.id])],
                           clock)]
    /\ UNCHANGED <<subscriptions, products, clock>>

\* lines 113-131: update({status:'trial', expires_at, trial_used:true})
\* .eq('id', subscription.id); its result is not looked at.
VerifyActivate(r) ==
    /\ req[r].pc = "activate"
    /\ subscriptions' = UpdateById(subscriptions, req[r].view.subscription.id,
                                   [status |-> "trial",
                                    expires_at |-> req[r].expiresAt,
                                    trial_used |-> TRUE])
    /\ req' = [req EXCEPT ![r].pc = "done", ![r].expiresAt = Null,
                          ![r].writes =
                              Append(@, [op |-> "activate",
                                         table |-> "subscriptions",
                                         id |-> req[r].view.subscription.id]),
                          ![r].resp = TrialActivated(req[r].view,
                                          req[r].expiresAt, req[r].device)]
    /\ UNCHANGED <<api_keys, products, clock>>

\* VerifyRevert falling through to the trial test with the subscription it
\* has just set to free.
VerifyRevert_ThenActivates(r) ==
    /\ req[r].pc = "revert"
    /\ subscriptions' = UpdateById(subscriptions, req[r].view.subscription.id,
                                   [status |-> "free", expires_at |-> Null])
    /\ LET again == /\ req[r].view.product.trial_enabled
                    /\ ~req[r].view.subscription.trial_used
           logged == [req[r] EXCEPT
                        !.writes = Append(@, [op |-> "revert",
                                              table |-> "subscriptions",
                                              id |-> req[r].view.subscription.id])]
       IN req' = [req EXCEPT ![r] =
                    IF again
                    THEN [logged EXCEPT !.pc = "activate", !.now = 0,
                                        !.expiresAt = clock + TrialDays * Day]
                    ELSE [logged EXCEPT !.pc = "done", !.expiresAt = Null,
                                        !.now = 0,
                                        !.resp = SteadyResponse(req[r].view,
                                                     "free", Null,
                                                     req[r].expiresAt,
                                                     req[r].now,
                                                     req[r].device)]]
    /\ UNCHANGED <<api_keys, products, clock>>

\* lines 141-169: update({status:'free', expires_at:null})
\* .eq('id', subscription.id), then the local subscription is set to free.
VerifyRevert(r) ==
    /\ req[r].pc = "revert"
    /\ subscriptions' = UpdateById(subscriptions, req[r].view.subscription.id,
                                   [status |-> "free", expires_at |-> Null])
    /\ req' = [req EXCEPT ![r].pc = "done", ![r].expiresAt = Null,
                          ![r].now = 0,
                          ![r].writes =
                              Append(@, [op |-> "revert",
                                         table |-> "subscriptions",
                                         id |-> req[r].view.subscription.id]),
                          ![r].resp = SteadyResponse(req[r].view, "free", Null,
                                          req[r].expiresAt, req[r].now,
                                          req[r].device)]
    /\ UNCHANGED <<api_keys, products, clock>>

\* ---------------------------------------------------- /release-device

Released == [success |-> TRUE,
             message |-> "Device binding released successfully"]

KeyNotFound == [status |-> 404, error |-> "API key not found"]

\* ReleaseDevice answering without having cleared the device.
ReleaseDevice_KeepsDevice(r, token) ==
    /\ CanStart(r)
    /\ api_keys' = api_keys
    /\ LET hit == Cardinality({k \in api_keys : k.key_value = token}) = 1
       IN req' = [(IF hit THEN NoteRelease(req, r) ELSE req) EXCEPT ![r] =
                    [Fresh EXCEPT !.kind = "release", !.token = token,
                                 !.pc = "done",
                                 !.writes = <<[op |-> "release",
                                               table |-> "api_keys",
                                               id |-> token]>>,
                                 !.resp = IF hit THEN Released
                                          ELSE KeyNotFound]]
    /\ UNCHANGED <<subscriptions, products, clock>>

\* ReleaseDevice with the update restricted to rows that have a device: a
\* key that is already unbound gives no row, hence not-found.
ReleaseDevice_OnlyIfBound(r, token) ==
    /\ CanStart(r)
    /\ api_keys' = UpdateByKeyValue(api_keys, token, [device_id |-> NoDevice])
    /\ LET hit == Cardinality({k \in api_keys : k.key_value = token
                                  /\ k.device_id # "null"}) = 1
       IN req' = [req EXCEPT ![r] =
                    [Fresh EXCEPT !.kind = "release", !.token = token,
                                 !.pc = "done",
                                 !.writes = <<[op |-> "release",
                                               table |-> "api_keys",
                                               id |-> token]>>,
                                 !.resp = IF hit
                                          THEN [success |-> TRUE,
                                                message |-> "Device binding released successfully"]
                                          ELSE [status |-> 404,
                                                error |-> "API key not found"]]]
    /\ UNCHANGED <<subscriptions, products, clock>>

\* lines 181-209: update({device_id: null}).eq('key_value', api_key)
\* .select().single()
ReleaseDevice(r, token) ==
    /\ CanStart(r)
    /\ api_keys' = UpdateByKeyValue(api_keys, token, [device_id |-> NoDevice])
    /\ LET hit == Cardinality({k \in api_keys : k.key_value = token}) = 1
       IN req' = [(IF hit THEN NoteRelease(req, r) ELSE req) EXCEPT ![r] =
                    [Fresh EXCEPT !.kind = "release", !.token = token,
                                 !.pc = "done",
                                 !.writes = <<[op |-> "release",
                                               table |-> "api_keys",
                                               id |-> token]>>,
                                 !.resp = IF hit THEN Released
                                          ELSE KeyNotFound]]
    /\ UNCHANGED <<subscriptions, products, clock>>

\* ------------------------------------------------------- admin routes

ServerError == [status |-> 500, error |-> "error"]

\* UpdateData giving the trial back when the status is set to free.
UpdateData_FreeResetsTrial(status, days, t) ==
    IF status = "premium" /\ days # 0
    THEN [status |-> status, expires_at |-> t + days * Day]
    ELSE IF status = "free"
    THEN [status |-> status, expires_at |-> Null, trial_used |-> FALSE]
    ELSE [status |-> status]

\* UpdateData without the else-branch that nulls expires_at for free.
UpdateData_FreeKeepsExpiry(status, days, t) ==
    IF status = "premium" /\ days # 0
    THEN [status |-> status, expires_at |-> t + days * Day]
    ELSE [status |-> status]

\* lines 325-333
UpdateData(status, days, t) ==
    IF status = "premium" /\ days # 0
    THEN [status |-> status, expires_at |-> t + days * Day]
    ELSE IF status = "free"
    THEN [status |-> status, expires_at |-> Null]
    ELSE [status |-> status]

\* PUT /admin/users/:id/subscription {product_id, status, days}:
\* lines 322-339, updateData and the ensure_subscription rpc.
AdminSubscription(r, p, status, days) ==
    /\ CanStart(r)
    /\ subscriptions' = ensure_subscription(subscriptions, p)
    /\ api_keys' = IF subscriptions' # subscriptions
                   THEN create_api_key_for_subscription(api_keys, p)
                   ELSE api_keys
    /\ req' = [req EXCEPT ![r] =
                 [Fresh EXCEPT !.kind = "admin", !.pc = "update", !.pair = p,
                              !.updateData = UpdateData(status, days, clock),
                              !.snap = {s \in subscriptions' : s.pair = p}]]
    /\ UNCHANGED <<products, clock>>

\* AdminSubscriptionUpdate writing the status alone: expires_at is left for
\* a later write.
AdminSubscriptionUpdate_StatusOnly(r) ==
    /\ req[r].pc = "update"
    /\ subscriptions' = UpdateByPair(subscriptions, req[r].pair,
                                     [status |-> req[r].updateData.status])
    /\ LET hits == {s \in subscriptions' : s.pair = req[r].pair}
       IN req' = [req EXCEPT ![r].pc = "done", ![r].updateData = <<>>,
                             ![r].snap = {},
                             ![r].writes =
                                 Append(@, [op |-> "override",
                                            table |-> "subscriptions",
                                            id |-> req[r].pair]),
                             ![r].resp = IF Cardinality(hits) = 1
                                         THEN [data |-> CHOOSE s \in hits : TRUE]
                                         ELSE ServerError]
    /\ UNCHANGED <<api_keys, products, clock>>

\* lines 341-350: update(updateData).eq('user_id', ..).eq('product_id', ..)
\* .select().single()
AdminSubscriptionUpdate(r) ==
    /\ req[r].pc = "update"
    /\ subscriptions' = UpdateByPair(subscriptions, req[r].pair,
                                     req[r].updateData)
    /\ LET hits == {s \in subscriptions' : s.pair = req[r].pair}
       IN req' = [req EXCEPT ![r].pc = "done", ![r].updateData = <<>>,
                             ![r].snap = {},
                             ![r].writes =
                                 Append(@, [op |-> "override",
                                            table |-> "subscriptions",
                                            id |-> req[r].pair]),
                             ![r].resp = IF Cardinality(hits) = 1
                                         THEN [data |-> CHOOSE s \in hits : TRUE]
                                         ELSE ServerError]
    /\ UNCHANGED <<api_keys, products, clock>>

\* POST /admin/users/:id/release-device {product_id}: lines 356-374
AdminReleaseDevice(r, p) ==
    /\ CanStart(r)
    /\ api_keys' = UpdateByPair(api_keys, p, [device_id |-> NoDevice])
    /\ LET hit == Cardinality({k \in api_keys : k.pair = p}) = 1
       IN req' = [(IF hit THEN NoteRelease(req, r) ELSE req) EXCEPT ![r] =
                    [Fresh EXCEPT !.kind = "admin_release", !.pair = p,
                                 !.pc = "done",
                                 !.writes = <<[op |-> "release",
                                               table |-> "api_keys",
                                               id |-> p]>>,
                                 !.resp = IF hit
                                          THEN [success |-> TRUE,
                                                message |-> "Device binding released"]
                                          ELSE ServerError]]
    /\ UNCHANGED <<subscriptions, products, clock>>

\* ---------------------------------------------------------- the clock

Tick ==
    /\ clock < MaxTime
    /\ clock' = clock + 1
    /\ UNCHANGED <<api_keys, subscriptions, products, req>>

\* ------------------------------------------------------ specification

\* A (user, product) pair either has been granted access (its subscription
\* and, by the insert trigger, its key exist, with the column defaults) or
\* has no rows yet; the product row carries any flags the admin gave it.
Init ==
    /\ \E granted \in SUBSET Pairs :
          /\ subscriptions = { [id |-> 1, pair |-> p, status |-> "free",
                                expires_at |-> Null, trial_used |-> FALSE]
                               : p \in granted }
          /\ api_keys = { [id |-> 1, pair |-> p, key_value |-> KeyValue(p),
                           device_id |-> NoDevice] : p \in granted }
    /\ products \in [Pairs -> [is_active : BOOLEAN, trial_enabled : BOOLEAN]]
    /\ clock = 0
    /\ req = [r \in Reqs |-> Idle]

Step(r) ==
    \/ \E token \in Tokens, device \in Devices : Verify(r, token, device)
    \/ VerifyBind(r)
    \/ VerifyActivate(r)
    \/ VerifyRevert(r)
    \/ \E token \in Tokens : ReleaseDevice(r, token)
    \/ \E p \in Pairs, status \in AdminStatus, days \in AdminDays :
          AdminSubscription(r, p, status, days)
    \/ AdminSubscriptionUpdate(r)
    \/ \E p \in Pairs : AdminReleaseDevice(r, p)

Next ==
    \/ \E r \in Reqs : Step(r)
    \/ Tick

Spec == Init /\ [][Next]_vars

\* One request at a time: a request takes its steps while no other request
\* is between its first store call and its response.
NextSeq ==
    \/ \E r \in Reqs : (\A q \in Reqs \ {r} : ~InFlight(q)) /\ Step(r)
    \/ Tick

SpecSeq == Init /\ [][NextSeq]_vars

\* ------------------------------------------------- store failures
\* A store call that fails (timeout, store unavailable) changes no row.  The
\* client either resolves the awaited call to {data: null, error} or rejects
\* it: thrown tells which.  /verify looks at the error of its select only
\* (keyError) and at no result of its updates; a rejection lands in its
\* catch block.

InternalError == [status |-> 500, valid |-> FALSE,
                  error |-> "Internal server error"]

\* lines 61-77 and 171-177: the select fails.
VerifyFails(r, token, device, thrown) ==
    /\ CanStart(r)
    /\ req' = [req EXCEPT ![r] =
                 [Fresh EXCEPT !.kind = "verify", !.token = token,
                               !.device = device, !.failed = TRUE,
                               !.pc = "done",
                               !.resp = IF thrown THEN InternalError
                                        ELSE InvalidKey]]
    /\ UNCHANGED <<api_keys, subscriptions, products, clock>>

\* lines 94-97 and 171-177: the bind update fails.
VerifyBindFails(r, thrown) ==
    /\ req[r].pc = "bind"
    /\ req' = [req EXCEPT ![r] =
                 IF thrown
                 THEN [req[r] EXCEPT !.failed = TRUE, !.pc = "done",
                                     !.resp = InternalError]
                 ELSE Lifecycle([req[r] EXCEPT !.failed = TRUE], clock)]
    /\ UNCHANGED <<api_keys, subscriptions, products, clock>>

\* lines 113-131 and 171-177: the activation update fails.
VerifyActivateFails(r, thrown) ==
    /\ req[r].pc = "activate"
    /\ req' = [req EXCEPT ![r].failed = TRUE, ![r].pc = "done",
                          ![r].expiresAt = Null,
                          ![r].resp = IF thrown THEN InternalError
                                      ELSE TrialActivated(req[r].view,
                                               req[r].expiresAt, req[r].device)]
    /\ UNCHANGED <<api_keys, subscriptions, products, clock>>

\* lines 141-169 and 171-177: the reversion update fails.
VerifyRevertFails(r, thrown) ==
    /\ req[r].pc = "revert"
    /\ req' = [req EXCEPT ![r].failed = TRUE, ![r].pc = "done",
                          ![r].expiresAt = Null, ![r].now = 0,
                          ![r].resp = IF thrown THEN InternalError
                                      ELSE SteadyResponse(req[r].view, "free",
                                               Null, req[r].expiresAt,
                                               req[r].now, req[r].device)]
    /\ UNCHANGED <<api_keys, subscriptions, products, clock>>

FailStep(r) ==
    \/ \E token \in Tokens, device \in Devices, thrown \in BOOLEAN :
          VerifyFails(r, token, device, thrown)
    \/ \E thrown \in BOOLEAN : VerifyBindFails(r, thrown)
    \/ \E thrown \in BOOLEAN : VerifyActivateFails(r, thrown)
    \/ \E thrown \in BOOLEAN : VerifyRevertFails(r, thrown)

\* The server with a store whose calls can fail.
NextFail ==
    \/ Next
    \/ \E r \in Reqs : FailStep(r)

SpecFail == Init /\ [][NextFail]_vars

\* ------------------------------------------------------- whole handlers
\* What a handler writes and answers when it runs from the present store
\* and clock with no step of another request in between.

\* app.post('/verify'), server.js lines 49-178
ExpressVerify(token, device) ==
    LET view == KeyLookup(token)
        rq0 == AfterLookup([Idle EXCEPT !.kind = "verify", !.token = token,
                                        !.device = device, !.view = view],
                           clock)
        rq1 == IF rq0.pc = "bind"
               THEN Lifecycle([rq0 EXCEPT !.writes =
                                 Append(@, [op |-> "bind", table |-> "api_keys",
                                            id |-> view.id])], clock)
               ELSE rq0
        sub == [op |-> "", table |-> "subscriptions",
                id |-> view.subscription.id]
    IN  IF rq1.pc = "activate"
        THEN [writes |-> Append(rq1.writes, [sub EXCEPT !.op = "activate"]),
              resp |-> TrialActivated(view, rq1.expiresAt, device)]
        ELSE IF rq1.pc = "revert"
        THEN [writes |-> Append(rq1.writes, [sub EXCEPT !.op = "revert"]),
              resp |-> SteadyResponse(view, "free", Null, rq1.expiresAt,
                                      rq1.now, device)]
        ELSE [writes |-> rq1.writes, resp |-> rq1.resp]

\* app.post('/release-device'), server.js lines 181-209
ExpressReleaseDevice(token) ==
    [writes |-> <<[op |-> "release", table |-> "api_keys", id |-> token]>>,
     resp |-> IF Cardinality({k \in api_keys : k.key_value = token}) = 1
              THEN Released ELSE KeyNotFound]

\* The edge function's catch: database_schema.sql lines 266-271
EdgeInternalError == [status |-> 500, error |-> "Internal server error"]

\* handleVerify, database_schema.sql lines 274-409.  expiresAt!.getTime()
\* (line 391) throws when expiresAt is null.
handleVerify(token, device) ==
    LET view == KeyLookup(token)
        bind == IF view.found /\ view.product.is_active
                   /\ view.device_id = NoDevice
                THEN <<[op |-> "bind", table |-> "api_keys", id |-> view.id]>>
                ELSE <<>>
        sub == view.subscription
        expiresAt == sub.expires_at
        now == clock
        expired == /\ sub.status = "trial" \/ sub.status = "premium"
                   /\ expiresAt # Null
                   /\ expiresAt < now
        status == IF expired THEN "free" ELSE sub.status
        expires_at == IF expired THEN Null ELSE sub.expires_at
        base == [valid |-> TRUE, product |-> view.product.name,
                 status |-> status, device_id |-> device]
        timed == IF status = "premium" \/ status = "trial"
                 THEN [days_left |-> Max(0, Ceil(expiresAt - now, Day)),
                       expires_at |-> expires_at]
                 ELSE <<>>
        note == IF status = "free" /\ ~view.product.trial_enabled
                THEN [message |-> "Trial not available for this product."]
                ELSE <<>>
        write(op) == <<[op |-> op, table |-> "subscriptions", id |-> sub.id]>>
    IN  IF ~view.found
        THEN [writes |-> <<>>, resp |-> InvalidKey]
        ELSE IF ~view.product.is_active
        THEN [writes |-> <<>>, resp |-> ProductDisabled(view.product)]
        ELSE IF view.device_id # NoDevice /\ view.device_id # device
        THEN [writes |-> <<>>, resp |-> DeviceConflict]
        ELSE IF sub.status = "free" /\ view.product.trial_enabled
                /\ ~sub.trial_used
        THEN [writes |-> bind \o write("activate"),
              resp |-> [valid |-> TRUE, product |-> view.product.name,
                        status |-> "trial", days_left |-> 1,
                        expires_at |-> now + TrialDays * Day,
                        device_id |-> device,
                        message |->
                          "Trial activated! You have 1 day of premium access."]]
        ELSE [writes |-> bind \o (IF expired THEN write("revert") ELSE <<>>),
              resp |-> IF (status = "premium" \/ status = "trial")
                          /\ expiresAt = Null
                       THEN EdgeInternalError
                       ELSE base @@ timed @@ note]

\* handleReleaseDevice, database_schema.sql lines 411-443
handleReleaseDevice(token) ==
    [writes |-> <<[op |-> "release", table |-> "api_keys", id |-> token]>>,
     resp |-> IF \E k \in api_keys : k.key_value = token
              THEN [success |-> TRUE,
                    message |-> "Device binding released successfully"]
              ELSE [status |-> 404, error |-> "API key not found"]]

\* ------------------------------------------------------------ progress

\* The steps a handler takes when an awaited store call has returned.
Continue(r) ==
    \/ VerifyBind(r)
    \/ VerifyActivate(r)
    \/ VerifyRevert(r)
    \/ AdminSubscriptionUpdate(r)

\* Every awaited store call returns: a handler that can continue does.
SpecLive == Init /\ [][Next]_vars /\ \A r \in Reqs : WF_vars(Continue(r))

\* ------------------------------------------------------ product update

\* PUT /admin/products/:id {.., trial_enabled, is_active}: lines 250-274,
\* update({.., trial_enabled: Boolean(..), is_active: Boolean(..)})
\* .eq('id', id).select().single()
AdminProduct(r, p, trial_enabled, is_active) ==
    /\ CanStart(r)
    /\ products' = [products EXCEPT ![p] = [is_active |-> is_active,
                                            trial_enabled |-> trial_enabled]]
    /\ req' = [req EXCEPT ![r] =
                 [Fresh EXCEPT !.kind = "admin_product", !.pair = p,
                              !.pc = "done",
                              !.writes = <<[op |-> "product",
                                            table |-> "products",
                                            id |-> p]>>,
                              !.resp = [data |-> products'[p]]]]
    /\ UNCHANGED <<api_keys, subscriptions, clock>>

NextProducts ==
    \/ Next
    \/ \E r \in Reqs, p \in Pairs, trial_enabled \in BOOLEAN,
          is_active \in BOOLEAN : AdminProduct(r, p, trial_enabled, is_active)

SpecProducts == Init /\ [][NextProducts]_vars

\* ------------------------------------------------- stored subscriptions

\* What the columns of a subscription row can hold besides the defaults:
\* status IN ('free', 'trial', 'premium'), expires_at, trial_used.
StoredSub ==
    { [status |-> "free", expires_at |-> Null],
      [status |-> "trial", expires_at |-> TrialDays * Day],
      [status |-> "premium", expires_at |-> Day] }

\* Every pair has its subscription and key; the subscription is any stored
\* row, with trial_used either way; the products are on, with trials.
InitStored ==
    /\ subscriptions \in
          { { [id |-> 1, pair |-> p, trial_used |-> u] @@ f[p] : p \in Pairs }
            : f \in [Pairs -> StoredSub], u \in BOOLEAN }
    /\ api_keys = { [id |-> 1, pair |-> p, key_value |-> KeyValue(p),
                     device_id |-> NoDevice] : p \in Pairs }
    /\ products = [p \in Pairs |-> [is_active |-> TRUE,
                                    trial_enabled |-> TRUE]]
    /\ clock = 0
    /\ req = [r \in Reqs |-> Idle]

SpecStored == InitStored /\ [][Next]_vars

\* =====================================================================
\* Properties
\* =====================================================================

KeyRow(p) == CHOOSE k \in api_keys : k.pair = p
SubRow(p) == CHOOSE s \in subscriptions : s.pair = p

VerifyDone(r) == req[r].kind = "verify" /\ Done(r)

\* r and q were running at the same time.
Concurrent(r, q) == req[r].n \in req[q].conc \/ req[q].n \in req[r].conc

\* r passed the kill switch.
Resolved(r) == req[r].view.found /\ req[r].view.product.is_active

\* r executed a store call of kind op.
Issued(r, op) == \E i \in 1..Len(req[r].writes) : req[r].writes[i].op = op

\* r is the request received last and every request has been answered.
Settled(r) == req[r].n = Ops /\ \A q \in Reqs : ~InFlight(q)

\* C1: of two verifies that run concurrently for the same key with different
\* devices, the key being fresh when the first was received and no release
\* reaching the store meanwhile, exactly one is answered valid=true, the
\* other gets the device-conflict result, and the device left bound is the
\* one of the valid=true answer.
C1_OneWinnerOfConcurrentBind ==
    \A r, q \in Reqs :
        ( /\ VerifyDone(r) /\ VerifyDone(q)
          /\ req[r].n < req[q].n
          /\ Concurrent(r, q)
          /\ req[r].token = req[q].token
          /\ req[r].device # req[q].device
          /\ Resolved(r)
          /\ req[r].view.device_id = NoDevice
          /\ ~req[r].released /\ ~req[q].released )
        => \E w, l \in {r, q} :
              /\ w # l
              /\ req[w].resp.valid
              /\ req[l].resp = DeviceConflict
              /\ Settled(q) => KeyRow(req[r].pair).device_id = req[w].device

\* C2: no step changes the device of an api_keys row from one device to a
\* different device.
C2_NoSilentRebind ==
    [][\A k \in api_keys, k2 \in api_keys' :
          (k.id = k2.id /\ k.device_id # NoDevice /\ k2.device_id # NoDevice)
          => k2.device_id = k.device_id]_vars

\* C3: for every subscription, the trial activation is carried out at most
\* once: at most one request executes the activation write for it.
C3_TrialActivatedAtMostOnce ==
    \A p \in Pairs :
        Cardinality({r \in Reqs : req[r].pair = p /\ Issued(r, "activate")}) <= 1

\* C4: of two verifies that run concurrently for the same key with the same
\* device, the key being fresh and trial-eligible when the first was
\* received, exactly one executes the activation write and both answers
\* report status trial.
C4_OneActivationAmongConcurrent ==
    \A r, q \in Reqs :
        ( /\ VerifyDone(r) /\ VerifyDone(q)
          /\ req[r].n < req[q].n
          /\ Concurrent(r, q)
          /\ req[r].token = req[q].token
          /\ req[r].device = req[q].device
          /\ Resolved(r)
          /\ req[r].view.device_id = NoDevice
          /\ TrialEligible(req[r].view)
          /\ ~req[r].released /\ ~req[q].released )
        => /\ Issued(r, "activate") # Issued(q, "activate")
           /\ req[r].resp.valid /\ req[r].resp.status = "trial"
           /\ req[q].resp.valid /\ req[q].resp.status = "trial"

\* The subscription rows in the state r read them in: the fields of the
\* select for a verify, the rows found by ensure_subscription for an admin
\* override.
Observed(r) ==
    IF req[r].kind = "admin" THEN req[r].snap
    ELSE { s \in subscriptions :
             /\ s.pair = req[r].pair
             /\ s.status = req[r].view.subscription.status
             /\ s.expires_at = req[r].view.subscription.expires_at
             /\ s.trial_used = req[r].view.subscription.trial_used }

\* C5: a subscription write of a verify (activation, reversion) or of an
\* admin override changes a row only if the row still is in the state the
\* writer read: it never overwrites a state written since by another
\* request.
C5_SubscriptionWritesAreConditional ==
    [][\A r \in Reqs :
          (req[r].pc \in {"activate", "revert", "update"} /\ req'[r].pc = "done")
          => \A s \in subscriptions : s \notin subscriptions' => s \in Observed(r)]_vars

\* The device check of r passed: the key was unbound or bound to r's device.
DeviceAccepted(r) == req[r].view.device_id \in {NoDevice, req[r].device}

\* C6: one request at a time.  A verify of a fresh key of an active product
\* with device D1 is answered valid=true and leaves D1 bound; the verify
\* received next, for the same key with another device D2, gets the
\* device-conflict result (valid=false) and D1 is still bound.
C6_SecondDeviceConflicts ==
    /\ \A r \in Reqs :
          ( /\ VerifyDone(r) /\ Resolved(r)
            /\ req[r].view.device_id = NoDevice
            /\ Settled(r) )
          => /\ req[r].resp.valid
             /\ KeyRow(req[r].pair).device_id = req[r].device
    /\ \A r, q \in Reqs :
          ( /\ VerifyDone(r) /\ Resolved(r)
            /\ req[r].view.device_id = NoDevice
            /\ VerifyDone(q)
            /\ req[q].n = req[r].n + 1
            /\ req[q].token = req[r].token
            /\ req[q].device # req[r].device )
          => /\ req[r].resp.valid
             /\ req[q].resp = DeviceConflict
             /\ ~req[q].resp.valid
             /\ Settled(q) => KeyRow(req[r].pair).device_id = req[r].device

C6_Witness ==
    \E r, q \in Reqs :
        /\ VerifyDone(r) /\ Resolved(r)
        /\ req[r].view.device_id = NoDevice
        /\ req[r].device = "D1"
        /\ VerifyDone(q)
        /\ req[q].n = req[r].n + 1
        /\ req[q].token = req[r].token
        /\ req[q].device = "D2"
        /\ req[q].resp = DeviceConflict
        /\ Settled(q)
        /\ KeyRow(req[r].pair).device_id = "D1"

\* C7: one request at a time.  A verify that passes the device check on a
\* trial-eligible subscription answers status trial with days_left 1 and
\* leaves the stored subscription at status trial, trial_used true and the
\* expires_at of the answer (now plus one day); the verify received next,
\* for the same key and device, answers status trial and executes no
\* subscription write.
C7_TrialActivationStored ==
    /\ \A r \in Reqs :
          ( /\ VerifyDone(r) /\ Resolved(r) /\ DeviceAccepted(r)
            /\ TrialEligible(req[r].view)
            /\ Settled(r) )
          => /\ req[r].resp.valid
             /\ req[r].resp.status = "trial"
             /\ req[r].resp.days_left = 1
             /\ SubRow(req[r].pair).status = "trial"
             /\ SubRow(req[r].pair).trial_used
             /\ SubRow(req[r].pair).expires_at = req[r].resp.expires_at
    /\ \A r, q \in Reqs :
          ( /\ VerifyDone(r) /\ Resolved(r) /\ DeviceAccepted(r)
            /\ TrialEligible(req[r].view)
            /\ VerifyDone(q)
            /\ req[q].n = req[r].n + 1
            /\ req[q].token = req[r].token
            /\ req[q].device = req[r].device )
          => /\ req[q].resp.valid
             /\ req[q].resp.status = "trial"
             /\ ~Issued(q, "activate") /\ ~Issued(q, "revert")

\* C8: when a verify that passed the kill switch and the device check and
\* read a trial or premium subscription with expires_at before now
\* completes, the stored subscription has status free and no expires_at and
\* the answer has status free and neither days_left nor expires_at; and no
\* verify answers trial or premium for a subscription it read as expired.
C8_ExpiredIsReverted ==
    [][\A r \in Reqs :
          /\ ( /\ req[r].kind = "verify" /\ InFlight(r)
               /\ Expired(req[r].view.subscription, req[r].now)
               /\ req'[r].pc = "done" )
             => /\ \A s \in subscriptions' :
                     s.pair = req[r].pair =>
                        s.status = "free" /\ s.expires_at = Null
                /\ req'[r].resp.valid
                /\ req'[r].resp.status = "free"
                /\ "days_left" \notin DOMAIN req'[r].resp
                /\ "expires_at" \notin DOMAIN req'[r].resp
          /\ ( /\ req'[r].kind = "verify" /\ req'[r].pc = "done"
               /\ req'[r] # req[r]
               /\ req'[r].resp.valid
               /\ req'[r].view.subscription.expires_at # Null
               /\ req'[r].view.subscription.expires_at < clock )
             => req'[r].resp.status = "free"]_vars

\* C9: a verify whose product is inactive gets the product-disabled result
\* (valid=false, active=false), has executed no write, and the step that
\* answers it leaves api_keys and subscriptions as they were.
C9_DisabledProductWritesNothing ==
    /\ [](\A r \in Reqs :
            (VerifyDone(r) /\ req[r].view.found
                /\ ~req[r].view.product.is_active)
            => /\ req[r].resp = ProductDisabled(req[r].view.product)
               /\ ~req[r].resp.valid
               /\ ~req[r].resp.active
               /\ req[r].writes = <<>>)
    /\ [][\A r \in Reqs :
            ( /\ req'[r].n = Ops + 1
              /\ req'[r].kind = "verify"
              /\ req'[r].view.found
              /\ ~req'[r].view.product.is_active )
            => /\ req'[r].pc = "done"
               /\ api_keys' = api_keys
               /\ subscriptions' = subscriptions]_vars

\* A fresh key of a disabled product was presented with a device, whatever
\* the subscription state: here a premium subscription.
C9_Witness ==
    \E r \in Reqs :
        /\ VerifyDone(r)
        /\ req[r].view.found
        /\ ~req[r].view.product.is_active
        /\ req[r].view.device_id = NoDevice
        /\ req[r].view.subscription.status = "premium"
        /\ req[r].resp = ProductDisabled(req[r].view.product)
        /\ KeyRow(req[r].pair).device_id = NoDevice

\* C10: a verify that gets the device-conflict result has executed no write,
\* and the step that answers it leaves api_keys and subscriptions as they
\* were.
C10_ConflictWritesNothing ==
    /\ [](\A r \in Reqs :
            (VerifyDone(r) /\ req[r].resp = DeviceConflict)
            => req[r].writes = <<>>)
    /\ [][\A r \in Reqs :
            ( /\ req'[r] # req[r]
              /\ req'[r].kind = "verify"
              /\ req'[r].pc = "done"
              /\ req'[r].resp = DeviceConflict )
            => /\ api_keys' = api_keys
               /\ subscriptions' = subscriptions]_vars

\* A conflict on a key whose subscription was read as trial-eligible.
C10_Witness ==
    \E r \in Reqs :
        /\ VerifyDone(r)
        /\ req[r].resp = DeviceConflict
        /\ TrialEligible(req[r].view)
        /\ KeyRow(req[r].pair).device_id # req[r].device
        /\ KeyRow(req[r].pair).device_id # NoDevice

\* The request received in this step is in slot r.
Received(r) == req'[r].n = Ops + 1

\* C11: a verify whose token matches no api_keys row is answered
\* {valid: false, error: 'Invalid API key'} in the step that receives it, has
\* executed no write, and that step changes no api_keys, subscriptions or
\* products row; so every repetition gives the same answer and store.
C11_UnknownTokenInvalid ==
    [][\A r \in Reqs :
          ( /\ Received(r)
            /\ req'[r].kind = "verify"
            /\ ~\E k \in api_keys : k.key_value = req'[r].token )
          => /\ req'[r].pc = "done"
             /\ req'[r].resp = InvalidKey
             /\ req'[r].writes = <<>>
             /\ api_keys' = api_keys
             /\ subscriptions' = subscriptions
             /\ products' = products]_vars

\* The same unknown token was verified twice in a row against a store that
\* holds a bound key.
C11_Witness ==
    \E r, q \in Reqs :
        /\ VerifyDone(r) /\ VerifyDone(q)
        /\ req[q].n = req[r].n + 1
        /\ req[r].token = "sk_unknown" /\ req[q].token = "sk_unknown"
        /\ req[r].resp = InvalidKey /\ req[q].resp = InvalidKey
        /\ \E k \in api_keys : k.device_id # NoDevice

\* C12: a release-device for the token of a key answers success and leaves
\* that key without device, whether or not it had one (a key already
\* unbound is left as it was), and changes nothing else; for a token that
\* matches no key it answers not-found and changes no row.
C12_ReleaseIdempotent ==
    [][\A r \in Reqs :
          (Received(r) /\ req'[r].kind = "release")
          => /\ subscriptions' = subscriptions
             /\ products' = products
             /\ IF \E k \in api_keys : k.key_value = req'[r].token
                THEN /\ req'[r].resp = Released
                     /\ api_keys' =
                          { IF k.key_value = req'[r].token
                            THEN [k EXCEPT !.device_id = NoDevice] ELSE k
                            : k \in api_keys }
                     /\ (\A k \in api_keys : k.device_id = NoDevice)
                           => api_keys' = api_keys
                ELSE /\ req'[r].resp = KeyNotFound
                     /\ api_keys' = api_keys]_vars

\* The same key was released twice in a row: both answers are the success
\* answer and the key is unbound.
C12_Witness ==
    \E r, q \in Reqs :
        /\ req[r].kind = "release" /\ Done(r)
        /\ req[q].kind = "release" /\ Done(q)
        /\ req[q].n = req[r].n + 1
        /\ req[r].token = req[q].token
        /\ req[r].resp = Released /\ req[q].resp = Released
        /\ \E k \in api_keys : k.key_value = req[r].token
                                  /\ k.device_id = NoDevice

\* C13: a verify with a failed store call is answered with the internal
\* error and has executed no write (so it has neither bound the device nor
\* answered valid=true).
C13_FailureIsInternalError ==
    \A r \in Reqs :
        (VerifyDone(r) /\ req[r].failed)
        => /\ req[r].resp = InternalError
           /\ req[r].writes = <<>>

\* r is an answered admin override that returned the updated row.
OverrideDone(r) ==
    req[r].kind = "admin" /\ Done(r) /\ "data" \in DOMAIN req[r].resp

\* C14: every subscription with status free has no expires_at.
C14_FreeHasNoExpiry ==
    \A s \in subscriptions : s.status = "free" => s.expires_at = Null

\* A subscription that an override had made premium with an expiry was set
\* back to free by the next override.
C14_Witness ==
    \E r, q \in Reqs :
        /\ OverrideDone(r) /\ OverrideDone(q)
        /\ req[q].n = req[r].n + 1
        /\ req[r].pair = req[q].pair
        /\ req[r].resp.data.status = "premium"
        /\ req[r].resp.data.expires_at # Null
        /\ req[q].resp.data.status = "free"
        /\ SubRow(req[q].pair).status = "free"
        /\ SubRow(req[q].pair).expires_at = Null

\* C15: a subscription has an expires_at exactly when its status is trial
\* or premium.
C15_ExpiryIffTimedStatus ==
    \A s \in subscriptions :
        (s.expires_at # Null) <=> (s.status \in {"trial", "premium"})

\* C16: for every subscription record, trial_used never changes from true
\* to false, whichever verify, release or admin override step is taken.
C16_TrialUsedStays ==
    [][ \A s \in subscriptions :
            s.trial_used
            => \E t \in subscriptions' : t.id = s.id /\ t.trial_used ]_vars

\* An admin override has changed the status of a subscription whose
\* trial_used is set, while a verify of the same pair was running.
C16_Witness ==
    \E r, q \in Reqs :
        /\ OverrideDone(r)
        /\ req[r].resp.data.trial_used
        /\ req[r].resp.data.status = "premium"
        /\ req[q].kind = "verify" /\ req[q].pair = req[r].pair
        /\ req[q].n < req[r].n /\ InFlight(q)
        /\ SubRow(req[r].pair).trial_used

\* d is max(0, ceil((expires_at - now) / 1 day)): the least whole number of
\* days, from 0, that reaches from now to expires_at.
IsDaysLeft(d, expires_at, now) ==
    /\ d >= 0
    /\ d * Day >= expires_at - now
    /\ d > 0 => (d - 1) * Day < expires_at - now

\* Verify r answers in this step and its response carries days_left.
AnswersDaysLeft(r) ==
    /\ req[r].pc # "done"
    /\ req'[r].pc = "done" /\ req'[r].kind = "verify"
    /\ "days_left" \in DOMAIN req'[r].resp

\* C17: a days_left in a verify response is never negative and equals
\* max(0, ceil((expires_at - now) / 1 day)) for the expires_at and the now
\* of that verify: the stored expires_at it read and the time of its answer
\* or, when it activates the trial, the expiry it computed and the time it
\* computed it from.
C17_DaysLeft ==
    [][ \A r \in Reqs :
          AnswersDaysLeft(r)
          => /\ req'[r].resp.days_left >= 0
             /\ IF req[r].pc = "activate"
                THEN /\ req'[r].resp.expires_at = req[r].expiresAt
                     /\ IsDaysLeft(req'[r].resp.days_left, req[r].expiresAt,
                                   req[r].expiresAt - TrialDays * Day)
                ELSE LET expires_at == req'[r].view.subscription.expires_at
                     IN  expires_at # Null
                         => /\ req'[r].resp.expires_at = expires_at
                            /\ IsDaysLeft(req'[r].resp.days_left,
                                          expires_at, clock) ]_vars

\* A verify answered with days_left 0 for a subscription that expires at
\* the very time of the verify, and another with days_left 1 for one that
\* expires in less than a day.
C17_Witness ==
    \E r, q \in Reqs :
        /\ VerifyDone(r) /\ VerifyDone(q)
        /\ "days_left" \in DOMAIN req[r].resp
        /\ "days_left" \in DOMAIN req[q].resp
        /\ req[r].resp.days_left = 0
        /\ req[r].resp.expires_at = clock
        /\ req[q].resp.days_left = 1
        /\ req[q].resp.status = "trial"
        /\ req[q].view.subscription.status = "trial"
        /\ req[q].resp.expires_at = clock

\* C18: a verify is decided in a fixed order on the rows its token reaches
\* when it is received: no such key, invalid key; otherwise product not
\* active, product disabled, whatever the bound device and the subscription;
\* otherwise a bound device other than the presented one, conflict; and only
\* a verify that passed all three is not refused in that step.
C18_OutcomePriority ==
    [][\A r \in Reqs :
          (Received(r) /\ req'[r].kind = "verify")
          => LET keys == {k \in api_keys : k.key_value = req'[r].token}
                 key == CHOOSE k \in keys : TRUE
                 refused == req'[r].pc = "done" /\ ~req'[r].resp.valid
             IN  IF keys = {}
                 THEN refused /\ req'[r].resp = InvalidKey
                 ELSE IF ~products[key.pair].is_active
                 THEN refused /\ req'[r].resp = ProductDisabled([name |-> key.pair])
                 ELSE IF key.device_id \notin {NoDevice, req'[r].device}
                 THEN refused /\ req'[r].resp = DeviceConflict
                 ELSE ~refused ]_vars

\* A product was switched off after its key was bound, and a verify that
\* presented another device got the product-disabled result.
C18_Witness ==
    \E r \in Reqs :
        /\ VerifyDone(r)
        /\ req[r].n = Ops
        /\ req[r].view.found
        /\ req[r].resp = ProductDisabled(req[r].view.product)
        /\ KeyRow(req[r].pair).device_id \notin {NoDevice, req[r].device}
        /\ ~products[req[r].pair].is_active

\* C19: an admin override asked for free writes status free and expires_at
\* null, one asked for premium with N days writes status premium and
\* expires_at = its now + N days; the write is one step that replaces the
\* one subscription row of the pair by that row with these fields, and
\* changes no other row and no key; receiving the override changes no
\* existing row.
C19_OverrideIsOneUpdate ==
    [][\A r \in Reqs :
          /\ (Received(r) /\ req'[r].kind = "admin")
             => LET u == req'[r].updateData
                IN  /\ u.status = "free"
                       => u = [status |-> "free", expires_at |-> Null]
                    /\ (u.status = "premium" /\ "expires_at" \in DOMAIN u)
                       => \E N \in AdminDays \ {0} :
                             u.expires_at = clock + N * Day
                    /\ subscriptions \subseteq subscriptions'
          /\ (req[r].kind = "admin" /\ req[r].pc = "update"
                                    /\ req'[r].pc = "done")
             => /\ \E s \in subscriptions :
                      /\ s.pair = req[r].pair
                      /\ subscriptions' =
                           (subscriptions \ {s}) \cup {req[r].updateData @@ s}
                      /\ req'[r].resp = [data |-> req[r].updateData @@ s]
                /\ api_keys' = api_keys ]_vars

\* Two overrides of one pair ran concurrently, one for premium with days and
\* one for free; the premium one wrote last and, the clock having moved on,
\* the row is still as it wrote it.
C19_Witness ==
    \E r, q \in Reqs :
        /\ OverrideDone(r) /\ OverrideDone(q)
        /\ Concurrent(r, q)
        /\ req[r].pair = req[q].pair
        /\ req[q].resp.data.status = "free"
        /\ req[r].resp.data.status = "premium"
        /\ req[r].resp.data.expires_at # Null
        /\ req[r].resp.data.expires_at < clock + Day
        /\ SubRow(req[r].pair) = req[r].resp.data

\* C20: no step of a verify takes the device_id of an api_keys row from a
\* device to null: a step that does so is the step of a release request.
C20_OnlyReleaseUnbinds ==
    [][\A k \in api_keys :
          ( /\ k.device_id # NoDevice
            /\ \E j \in api_keys' : j.id = k.id /\ j.device_id = NoDevice )
          => \E r \in Reqs :
                /\ req'[r].kind \in {"release", "admin_release"}
                /\ req'[r].pc = "done" /\ req[r] # req'[r]
                /\ \A q \in Reqs \ {r} :
                      req[q].kind = "verify" => req'[q].pc = req[q].pc ]_vars

\* A verify bound the key, a release unbound it while that verify was still
\* running, and the verify was answered valid: the key is unbound.
C20_Witness ==
    \E r, v \in Reqs :
        /\ VerifyDone(r)
        /\ Issued(r, "bind")
        /\ req[r].released
        /\ req[r].resp.valid
        /\ req[v].kind \in {"release", "admin_release"} /\ Done(v)
        /\ Concurrent(r, v)
        /\ KeyRow(req[r].pair).device_id = NoDevice

\* C21: every valid=true verify response carries a status and the device_id
\* that was presented; it carries days_left and expires_at exactly when that
\* status is trial or premium; and when the status is free and the product
\* read has trial_enabled false, it carries the trial-not-available message.
C21_ResponseShape ==
    \A r \in Reqs :
        (VerifyDone(r) /\ req[r].resp.valid)
        => LET resp == req[r].resp
               has(f) == f \in DOMAIN resp
           IN  /\ has("status") /\ has("device_id")
               /\ resp.status \in {"free", "trial", "premium"}
               /\ resp.device_id = req[r].device
               /\ has("days_left") <=> resp.status \in {"trial", "premium"}
               /\ has("expires_at") <=> resp.status \in {"trial", "premium"}
               /\ (resp.status = "free" /\ ~req[r].view.product.trial_enabled)
                  => /\ has("message")
                     /\ resp.message = "Trial not available for this product."

\* A verify read an expired premium subscription of a product without
\* trials, issued the reversion and answered free, with the message and
\* without days_left.
C21_Witness ==
    \E r \in Reqs :
        /\ VerifyDone(r) /\ req[r].resp.valid
        /\ req[r].view.subscription.status = "premium"
        /\ Issued(r, "revert")
        /\ req[r].resp.status = "free"
        /\ ~req[r].view.product.trial_enabled
        /\ "message" \in DOMAIN req[r].resp
        /\ "days_left" \notin DOMAIN req[r].resp

\* C22: in every state each (user, product) pair has at most one
\* subscriptions row and at most one api_keys row.
C22_OneRowPerPair ==
    \A p \in Pairs :
        /\ Cardinality({s \in subscriptions : s.pair = p}) <= 1
        /\ Cardinality({k \in api_keys : k.pair = p}) <= 1

\* Two admin overrides of one pair, the only requests so far, have both
\* called ensure_subscription and neither has written its update yet: the
\* pair has one subscription, still as inserted, and one key.
C22_Witness ==
    \E r, q \in Reqs :
        /\ r # q
        /\ req[r].kind = "admin" /\ req[q].kind = "admin"
        /\ req[r].pc = "update" /\ req[q].pc = "update"
        /\ req[r].pair = req[q].pair
        /\ Ops = 2
        /\ req[r].snap = req[q].snap
        /\ Cardinality({s \in subscriptions : s.pair = req[r].pair}) = 1
        /\ Cardinality({k \in api_keys : k.pair = req[r].pair}) = 1

\* C23: a request that has started is answered, whatever the other requests
\* do: while it runs it can take its next step, it has no response yet, and
\* it gets its response in the step that ends it and keeps it.
C23_EveryRequestAnswered ==
    /\ \A r \in Reqs : InFlight(r) ~> Done(r)
    /\ [](\A r \in Reqs : /\ InFlight(r) => ENABLED Continue(r)
                          /\ InFlight(r) => req[r].resp = NoResp
                          /\ Done(r) => req[r].resp # NoResp)
    /\ [][\A r \in Reqs :
             (req'[r].resp # req[r].resp /\ req'[r].n = req[r].n)
             => req[r].pc # "done" /\ req'[r].pc = "done"]_vars

\* Two verifies of one key were running at once, each with its bind still
\* to issue, and both have been answered.
C23_Witness ==
    \E r, q \in Reqs :
        /\ r # q
        /\ VerifyDone(r) /\ VerifyDone(q)
        /\ Concurrent(r, q)
        /\ Issued(r, "bind") /\ Issued(q, "bind")
        /\ Len(req[r].writes) = 2 /\ Len(req[q].writes) = 2

\* C24: a verify whose key lookup fails in the store is answered with the
\* internal error, not with the invalid-key result of a lookup that found
\* no key.
C24_LookupFailureIsInternal ==
    [][\A r \in Reqs :
          (Received(r) /\ req'[r].kind = "verify" /\ req'[r].failed)
          => /\ req'[r].resp = InternalError
             /\ req'[r].resp # InvalidKey]_vars

\* Verify r passes the kill switch and the device check in this step and
\* goes on to the subscription it read.
PassesChecks(r) ==
    /\ req'[r].kind = "verify"
    /\ Received(r) \/ req[r].pc = "bind"
    /\ \/ req'[r].pc \in {"activate", "revert"}
       \/ req'[r].pc = "done" /\ req'[r].resp.valid

C26_VerifyWritesItsOwnRow ==
    [][\A r \in Reqs :
          ( /\ req[r].kind = "verify"
            /\ req[r].pc \in {"activate", "revert"}
            /\ req'[r].pc = "done" )
          => LET w == req'[r].writes[Len(req'[r].writes)]
                 row == SubRow(req[r].pair)
             IN  /\ w.table = "subscriptions"
                 /\ w.id = row.id
                 /\ \A s \in subscriptions : s # row => s \in subscriptions'
                 /\ req[r].pc = "activate"
                    => \E t \in subscriptions' :
                          /\ t.id = row.id /\ t.pair = req[r].pair
                          /\ t.status = "trial" /\ t.trial_used ]_vars

\* C27: when the latest request before a verify is a release-device that
\* was answered for the same key, the product being active and no other
\* request running when the release and when the verify is received, the
\* verify does not get the conflict result, whatever device it presents: it
\* goes on to bind that device, and its bind leaves that device in the key.
C27_VerifyAfterRelease ==
    [][\A r \in Reqs :
          /\ ( /\ Received(r) /\ req'[r].kind = "verify"
               /\ \E v \in Reqs :
                     /\ req[v].kind = "release" /\ Done(v)
                     /\ req[v].n = Ops
                     /\ req[v].resp = Released
                     /\ req[v].token = req'[r].token
                     /\ req[v].conc = {}
               /\ \A q \in Reqs : ~InFlight(q)
               /\ \A k \in api_keys :
                     k.key_value = req'[r].token => products[k.pair].is_active )
             => /\ req'[r].resp # DeviceConflict
                /\ req'[r].pc = "bind"
          /\ (req[r].kind = "verify" /\ req[r].pc = "bind" /\ req'[r].pc # "bind")
             => \A k \in api_keys' :
                   k.key_value = req[r].token => k.device_id = req[r].device
       ]_vars

\* A release of a key was answered, the verify received next presented D2,
\* found the key unbound, was answered valid, and D2 is bound.
C27_Witness ==
    \E r, v \in Reqs :
        /\ req[v].kind = "release" /\ Done(v) /\ req[v].resp = Released
        /\ VerifyDone(r) /\ req[r].n = req[v].n + 1
        /\ req[r].n = MaxOps
        /\ req[r].token = req[v].token
        /\ req[r].device = "D2"
        /\ req[r].conc = {} /\ req[v].conc = {}
        /\ req[r].resp.valid
        /\ Issued(r, "bind")
        /\ KeyRow(req[r].pair).device_id = "D2"

\* The writes verify r has issued to a table.
WritesTo(r, table) ==
    {i \in 1..Len(req[r].writes) : req[r].writes[i].table = table}

\* C28: a verify issues at most one write to api_keys and at most one to
\* subscriptions, never both the trial activation and the expiry reversion;
\* a verify that issued the reversion is answered free and has issued no
\* activation, also when the subscription it read has trial_used false and
\* the product has trials.
C28_OneWritePerRecord ==
    \A r \in Reqs :
        req[r].kind = "verify"
        => /\ Cardinality(WritesTo(r, "api_keys")) <= 1
           /\ Cardinality(WritesTo(r, "subscriptions")) <= 1
           /\ ~(Issued(r, "activate") /\ Issued(r, "revert"))
           /\ (Done(r) /\ Issued(r, "revert"))
              => req[r].resp.valid /\ req[r].resp.status = "free"

\* A verify bound the key and reverted an expired premium subscription with
\* trial_used false of a product with trials: it answered free with two
\* writes issued.
C28_Witness ==
    \E r \in Reqs :
        /\ VerifyDone(r)
        /\ Issued(r, "bind") /\ Issued(r, "revert")
        /\ Len(req[r].writes) = 2
        /\ req[r].view.subscription.status = "premium"
        /\ ~req[r].view.subscription.trial_used
        /\ req[r].view.product.trial_enabled
        /\ req[r].resp.status = "free"

\* Request r takes a step of the admin override in this step.
OverrideStep(r) ==
    \/ Received(r) /\ req'[r].kind = "admin"
    \/ req[r].kind = "admin" /\ req[r].pc = "update" /\ req'[r].pc = "done"

\* C29: a step of an admin override changes nothing but status and
\* expires_at of a subscription: every subscription keeps its id, pair and
\* trial_used and every key keeps its row, bound device included; so a key
\* whose trial was used is not trial-eligible after the step, also when the
\* step sets the subscription to free.
C29_OverrideKeepsTrialUsed ==
    [][\A r \in Reqs :
          OverrideStep(r)
          => /\ \A s \in subscriptions :
                   \E t \in subscriptions' :
                       /\ t.id = s.id /\ t.pair = s.pair
                       /\ t.trial_used = s.trial_used
             /\ api_keys \subseteq api_keys'
             /\ \A s \in subscriptions :
                   s.trial_used => ~TrialEligible(KeyLookup(KeyValue(s.pair)))'
       ]_vars

\* A subscription with a used trial was set to free by an override; the
\* verify received next, for a product with trials, answered free and
\* issued no activation.
C29_Witness ==
    \E r, q \in Reqs :
        /\ OverrideDone(r)
        /\ req[r].resp.data.status = "free"
        /\ req[r].resp.data.trial_used
        /\ VerifyDone(q) /\ req[q].n = req[r].n + 1
        /\ req[q].pair = req[r].pair
        /\ req[q].view.product.trial_enabled
        /\ req[q].resp.valid /\ req[q].resp.status = "free"
        /\ ~Issued(q, "activate")

\* C30: from every store state and clock value, for every request, the
\* Express handler and the edge-function handler of /verify issue the same
\* writes and answer the same body, and so do the two handlers of
\* /release-device.
C30_EdgeEquivalent ==
    \A token \in Tokens :
        /\ ExpressReleaseDevice(token) = handleReleaseDevice(token)
        /\ \A device \in Devices :
              ExpressVerify(token, device) = handleVerify(token, device)

====
